---- MODULE Spec2Model ----
(***************************************************************************)
(* Model of tasks/dotdox/processors.js: CommentContext (one documented     *)
(* entity built from a comment's tag list) and DocContext (the index that  *)
(* ingests comments, classifies them and resolves memberOf references      *)
(* through one-shot pubsub subscriptions and promises).                    *)
(*                                                                         *)
(* Strings are sequences of one-character strings, so "A.B" is             *)
(* <<"A", ".", "B">> and "" is <<>>.  Entities are numbered in the order   *)
(* their CommentContext is constructed; children, parent and ents are      *)
(* indexed by that number.                                                 *)
(***************************************************************************)
EXTENDS Integers, Sequences, FiniteSets, TLC

VARIABLES comments, pc, pos, passes, ents, children, parent,
          classes, modules, functions, constants, misc,
          subs, calls, microtasks, published, error, options, lookup

vars == <<comments, pc, pos, passes, ents, children, parent,
          classes, modules, functions, constants, misc,
          subs, calls, microtasks, published, error, options, lookup>>

docVars == <<classes, modules, functions, constants, misc>>

(***************************************************************************)
(* Bounds.                                                                 *)
(***************************************************************************)
MaxComments == 2
MaxPasses == 3
MaxEntities == 6
MaxKids == 3

(***************************************************************************)
(* JavaScript values that are not entities.                                *)
(***************************************************************************)
Undefined == 0
Null == 0 - 1
UndefinedStr == <<"undefined">>

\* a member inherited from Object.prototype (a function, not an entity)
ProtoMember == 0 - 2

Truthy(x) == x > 0 \/ x = ProtoMember
TruthyStr(s) == s # <<>> /\ s # UndefinedStr

A == <<"A">>
B == <<"B">>
F == <<"f">>
AB == <<"A", ".", "B">>
ToStringName == <<"t", "o", "S", "t", "r", "i", "n", "g">>
ConstructorName == <<"c", "o", "n", "s", "t", "r", "u", "c", "t", "o", "r">>
ValueOfName == <<"v", "a", "l", "u", "e", "O", "f">>
HasOwnPropertyName ==
    <<"h", "a", "s", "O", "w", "n", "P",
      "r", "o", "p", "e", "r", "t", "y">>
IsPrototypeOfName ==
    <<"i", "s", "P", "r", "o", "t",
      "o", "t", "y", "p", "e", "O", "f">>
PropertyIsEnumerableName ==
    <<"p", "r", "o", "p", "e", "r", "t", "y", "I", "s",
      "E", "n", "u", "m", "e", "r", "a", "b", "l", "e">>
ToLocaleStringName ==
    <<"t", "o", "L", "o", "c", "a", "l",
      "e", "S", "t", "r", "i", "n", "g">>
ProtoName == <<"_", "_", "p", "r", "o", "t", "o", "_", "_">>
DefineGetterName ==
    <<"_", "_", "d", "e", "f", "i", "n", "e",
      "G", "e", "t", "t", "e", "r", "_", "_">>
DefineSetterName ==
    <<"_", "_", "d", "e", "f", "i", "n", "e",
      "S", "e", "t", "t", "e", "r", "_", "_">>
LookupGetterName ==
    <<"_", "_", "l", "o", "o", "k", "u", "p",
      "G", "e", "t", "t", "e", "r", "_", "_">>
LookupSetterName ==
    <<"_", "_", "l", "o", "o", "k", "u", "p",
      "S", "e", "t", "t", "e", "r", "_", "_">>
KindClass == <<"c", "l", "a", "s", "s">>
KindEnum == <<"e", "n", "u", "m">>
KindFunction == <<"f", "u", "n", "c", "t", "i", "o", "n">>
KindConstant == <<"c", "o", "n", "s", "t", "a", "n", "t">>
KindModule == <<"m", "o", "d", "u", "l", "e">>

EmptyMap == [k \in {} |-> 0]

(***************************************************************************)
(* classes, modules, functions and constants are plain objects ({}): the   *)
(* in operator and a property read also see the keys inherited from        *)
(* Object.prototype.  Every inherited member is truthy and is not an       *)
(* entity (eleven functions and, for __proto__, Object.prototype itself).  *)
(***************************************************************************)
ProtoKeys ==
    {ConstructorName, ToStringName, ToLocaleStringName, ValueOfName,
     HasOwnPropertyName, IsPrototypeOfName, PropertyIsEnumerableName,
     ProtoName, DefineGetterName, DefineSetterName, LookupGetterName,
     LookupSetterName}

HasKey(map, name) == name \in DOMAIN map \/ name \in ProtoKeys

Get(map, name) ==
    IF name \in DOMAIN map THEN map[name]
    ELSE IF name \in ProtoKeys THEN ProtoMember
    ELSE Undefined
Range(f) == {f[k] : k \in DOMAIN f}

(***************************************************************************)
(* className.split("."): the segments between the dots, "" gives [""].     *)
(***************************************************************************)
RECURSIVE SplitFrom(_, _, _)
SplitFrom(s, cur, out) ==
    IF s = <<>> THEN Append(out, cur)
    ELSE IF Head(s) = "." THEN SplitFrom(Tail(s), <<>>, Append(out, cur))
    ELSE SplitFrom(Tail(s), Append(cur, Head(s)), out)

Split(s) == SplitFrom(s, <<>>, <<>>)

(***************************************************************************)
(* Child lookups of CommentContext.  kids is the _children array.          *)
(***************************************************************************)
NameOf(e) == ents[e].name

RECURSIVE getChildren(_, _)
getChildren(kids, name) ==
    IF kids = <<>> THEN <<>>
    ELSE IF NameOf(Head(kids)) = name
         THEN <<Head(kids)>> \o getChildren(Tail(kids), name)
         ELSE getChildren(Tail(kids), name)

\* the reduce callback shared by getFirstChild and getLastChild
PickChild(prev, current, name) ==
    IF Truthy(prev) /\ NameOf(prev) = name THEN prev
    ELSE IF Truthy(current) /\ NameOf(current) = name THEN current
    ELSE Undefined

RECURSIVE ReduceLeft(_, _, _)
ReduceLeft(kids, acc, name) ==
    IF kids = <<>> THEN acc
    ELSE ReduceLeft(Tail(kids), PickChild(acc, Head(kids), name), name)

RECURSIVE ReduceRight(_, _, _)
ReduceRight(kids, acc, name) ==
    IF kids = <<>> THEN acc
    ELSE ReduceRight(SubSeq(kids, 1, Len(kids) - 1),
                     PickChild(acc, kids[Len(kids)], name), name)

\* variant: the reduce runs from the right end
getFirstChildFromRight(kids, name) == ReduceRight(kids, Null, name)

getFirstChild(kids, name) == ReduceLeft(kids, Null, name)

\* variant: the reduce runs from the left end
getLastChildFromLeft(kids, name) == ReduceLeft(kids, Null, name)

getLastChild(kids, name) == ReduceRight(kids, Null, name)

(***************************************************************************)
(* Promises and the event bus.  A resolver state st is the record          *)
(* [subs, calls, microtasks]: subs holds the subscribeOnce registrations   *)
(* in subscription order, calls one record per getClass call (its promise) *)
(* and microtasks the queued then-callbacks of resolved promises.          *)
(***************************************************************************)
\* an entity still under construction has an empty _children array
KidsOf(e) == IF e \in DOMAIN children THEN children[e] ELSE <<>>

\* variant: a missing segment ends the walk at the entity reached so far
RECURSIVE walkPartsPartial(_, _)
walkPartsPartial(ctx, parts) ==
    IF parts = <<>> THEN ctx
    ELSE LET next == getFirstChild(KidsOf(ctx), Head(parts))
         IN  IF Truthy(next) THEN walkPartsPartial(next, Tail(parts)) ELSE ctx

RECURSIVE walkParts(_, _)
walkParts(ctx, parts) ==
    IF parts = <<>> THEN ctx
    ELSE LET next == getFirstChild(KidsOf(ctx), Head(parts))
         IN  IF Truthy(next) THEN walkParts(next, Tail(parts)) ELSE Undefined

\* walkParts(ctx, resolve) for the promise of call c, and the then-callback
\* that a resolved promise queues for its owner
Settle(st, c, ctx) ==
    LET target == walkParts(ctx, st.calls[c].parts)
    IN  IF ctx = ProtoMember /\ st.calls[c].parts # <<>>
        THEN \* ctx.getFirstChild is not a function: the executor throws
             [st EXCEPT !.calls[c].status = "rejected"]
        ELSE IF Truthy(target)
        THEN [st EXCEPT !.calls[c].status = "resolved",
                        !.calls[c].target = target,
                        !.microtasks = Append(@, c)]
        ELSE [st EXCEPT !.calls[c].status = "stuck"]

subscribeOnce(st, topic, c) ==
    [st EXCEPT !.subs = Append(@, [topic |-> topic, call |-> c]),
               !.calls[c].status = "subscribed"]

\* variant: the subscribers are called from the last one subscribed
RECURSIVE DeliverReversed(_, _, _, _)
DeliverReversed(st, todo, topic, ctx) ==
    IF todo = <<>> THEN st
    ELSE LET last == todo[Len(todo)]
             rest == SubSeq(todo, 1, Len(todo) - 1)
         IN  IF last.topic = topic
             THEN DeliverReversed(Settle(st, last.call, ctx), rest, topic, ctx)
             ELSE DeliverReversed(st, rest, topic, ctx)

RECURSIVE Deliver(_, _, _, _)
Deliver(st, todo, topic, ctx) ==
    IF todo = <<>> THEN st
    ELSE IF Head(todo).topic = topic
         THEN Deliver(Settle(st, Head(todo).call, ctx), Tail(todo), topic, ctx)
         ELSE Deliver(st, Tail(todo), topic, ctx)

\* variant: the subscriptions are kept after they were called
publishKeepSubscribers(st, topic, ctx) ==
    LET d == Deliver(st, st.subs, topic, ctx)
    IN  [d EXCEPT !.published = Append(@, [topic |-> topic, ctx |-> ctx])]

publish(st, topic, ctx) ==
    LET d == Deliver(st, st.subs, topic, ctx)
    IN  [d EXCEPT !.subs = SelectSeq(st.subs, LAMBDA s : s.topic # topic),
                  !.published = Append(@, [topic |-> topic, ctx |-> ctx])]

KnownClass(name) ==
    IF Truthy(Get(classes, name)) THEN Get(classes, name)
    ELSE Get(modules, name)

\* variant: the waiter subscribes to the topic of the first segment
SubscribeTopicFirstSegment(className) == Head(Split(className))

SubscribeTopic(className) == className

getClass(st, owner, className) ==
    LET parts == Split(className)
        name == Head(parts)
        ctx == KnownClass(name)
        c == Len(st.calls) + 1
        st1 == [st EXCEPT !.calls = Append(@, [owner |-> owner,
                                               className |-> className,
                                               parts |-> Tail(parts),
                                               status |-> "pending",
                                               target |-> Undefined])]
    IN  IF Truthy(ctx) THEN Settle(st1, c, ctx)
        ELSE subscribeOnce(st1, SubscribeTopic(className), c)

(***************************************************************************)
(* CommentContext: the constructor and processTags.  The metadata fields   *)
(* types, see, value, params, returns, body, content, code and ctx take    *)
(* no part in classification or resolution and are left out.               *)
(***************************************************************************)
NewEntity(comment) ==
    [name |-> <<>>, parentName |-> <<>>,
     isClass |-> FALSE, isModule |-> FALSE, isFunction |-> FALSE,
     isConstant |-> FALSE, isIgnored |-> FALSE, isEnum |-> FALSE,
     isPrivate |-> comment.isPrivate,
     tags |-> comment.tags, description |-> comment.description]

KindTag(acc, tag) ==
    CASE tag.arg = KindClass -> [acc EXCEPT !.ent.isClass = TRUE]
      [] tag.arg = KindFunction -> [acc EXCEPT !.ent.isFunction = TRUE]
      [] tag.arg = KindConstant -> [acc EXCEPT !.ent.isConstant = TRUE]
      [] tag.arg = KindEnum -> [acc EXCEPT !.ent.isEnum = TRUE]
      [] OTHER -> acc

\* variant: an entity already marked ignored schedules no resolution
MemberOfTagUnlessIgnored(acc, tag, id) ==
    IF tag.arg = UndefinedStr
    THEN [acc EXCEPT !.ent.parentName = tag.arg, !.thrown = TRUE]
    ELSE IF acc.ent.isIgnored
    THEN [acc EXCEPT !.ent.parentName = tag.arg]
    ELSE [acc EXCEPT !.ent.parentName = tag.arg,
                     !.st = getClass(acc.st, id, tag.arg)]

\* tag.parent undefined makes className.split throw a TypeError
MemberOfTag(acc, tag, id) ==
    IF tag.arg = UndefinedStr
    THEN [acc EXCEPT !.ent.parentName = tag.arg, !.thrown = TRUE]
    ELSE [acc EXCEPT !.ent.parentName = tag.arg,
                     !.st = getClass(acc.st, id, tag.arg)]

ApplyTag(acc, tag, id) ==
    CASE tag.type = "class" -> [acc EXCEPT !.ent.isClass = TRUE]
      [] tag.type = "module" -> [acc EXCEPT !.ent.isModule = TRUE]
      [] tag.type = "function" -> [acc EXCEPT !.ent.isFunction = TRUE]
      [] tag.type = "constant" -> [acc EXCEPT !.ent.isConstant = TRUE]
      [] tag.type = "enum" -> [acc EXCEPT !.ent.isEnum = TRUE]
      [] tag.type = "ignore" -> [acc EXCEPT !.ent.isIgnored = TRUE]
      [] tag.type = "private" -> [acc EXCEPT !.ent.isPrivate = TRUE]
      [] tag.type = "name" -> [acc EXCEPT !.ent.name = tag.arg]
      [] tag.type = "memberOf" -> MemberOfTag(acc, tag, id)
      [] tag.type = "kind" -> KindTag(acc, tag)
      [] OTHER -> acc

RECURSIVE processTags(_, _, _)
processTags(tags, acc, id) ==
    IF tags = <<>> \/ acc.thrown THEN acc
    ELSE processTags(Tail(tags), ApplyTag(acc, Head(tags), id), id)

CommentContext(comment, id, st) ==
    processTags(comment.tags,
                [ent |-> NewEntity(comment), st |-> st, thrown |-> FALSE], id)

\* variant: the push is left out
addChildNoPush(kids, p, child) == kids

addChild(kids, p, child) == [kids EXCEPT ![p] = Append(@, child)]

\* child._parent = this: _parent is defined without writable, and the file
\* is not in strict mode, so the assignment is silently ignored
SetParent(par, child, p) == par

(***************************************************************************)
(* DocContext.processSource: the body of the forEach callback after the    *)
(* CommentContext is built.  doc is the record of the four maps, misc and  *)
(* the resolver state.                                                     *)
(***************************************************************************)
Store(map, name, id) ==
    [k \in DOMAIN map \cup {name} |-> IF k = name THEN id ELSE map[k]]

\* variant: the parent prefix is added also when parentName is empty
QualifiedNameAlwaysPrefixed(ctx) == ctx.parentName \o <<".">> \o ctx.name

QualifiedName(ctx) ==
    IF TruthyStr(ctx.parentName)
    THEN ctx.parentName \o <<".">> \o ctx.name
    ELSE ctx.name

\* variant: the isIgnored test is left out
DroppedNever(ctx) == FALSE

Dropped(ctx) == ctx.isIgnored

\* variant: the name-in-classes test is left out
StoreClassOverwrite(doc, ctx, id) ==
    [doc EXCEPT !.classes = Store(@, ctx.name, id),
                !.st = publish(@, QualifiedName(ctx), id)]

StoreClass(doc, ctx, id) ==
    IF ~HasKey(doc.classes, ctx.name)
    THEN [doc EXCEPT !.classes = Store(@, ctx.name, id),
                     !.st = publish(@, QualifiedName(ctx), id)]
    ELSE doc

\* variant: the publication is made also when the duplicate is dropped
StoreModulePublishAlways(doc, ctx, id) ==
    IF ~HasKey(doc.modules, ctx.name)
    THEN [doc EXCEPT !.modules = Store(@, ctx.name, id),
                     !.st = publish(@, QualifiedName(ctx), id)]
    ELSE [doc EXCEPT !.st = publish(@, QualifiedName(ctx), id)]

StoreModule(doc, ctx, id) ==
    IF ~HasKey(doc.modules, ctx.name)
    THEN [doc EXCEPT !.modules = Store(@, ctx.name, id),
                     !.st = publish(@, QualifiedName(ctx), id)]
    ELSE doc

StoreFunction(doc, ctx, id) ==
    IF ~HasKey(doc.functions, ctx.name)
    THEN [doc EXCEPT !.functions = Store(@, ctx.name, id)]
    ELSE doc

StoreConstant(doc, ctx, id) ==
    IF ~HasKey(doc.constants, ctx.name)
    THEN [doc EXCEPT !.constants = Store(@, ctx.name, id)]
    ELSE doc

\* this.options.verbose is read before the push: without an options object
\* the read throws a TypeError; with one, verbose only selects a
\* console.warn
StoreMisc(doc, ctx, id) ==
    IF ~doc.options.given
    THEN [doc EXCEPT !.thrown = TRUE]
    ELSE [doc EXCEPT !.misc = Append(@, id)]

\* variant: the module branch is tested before the class branch
ClassifyModuleFirst(doc, ctx, id) ==
    IF Dropped(ctx) THEN doc
    ELSE IF ctx.isModule THEN StoreModule(doc, ctx, id)
    ELSE IF ctx.isClass THEN StoreClass(doc, ctx, id)
    ELSE IF ctx.isFunction THEN StoreFunction(doc, ctx, id)
    ELSE IF ctx.isConstant \/ ctx.isEnum THEN StoreConstant(doc, ctx, id)
    ELSE StoreMisc(doc, ctx, id)

Classify(doc, ctx, id) ==
    IF Dropped(ctx) THEN doc
    ELSE IF ctx.isClass THEN StoreClass(doc, ctx, id)
    ELSE IF ctx.isModule THEN StoreModule(doc, ctx, id)
    ELSE IF ctx.isFunction THEN StoreFunction(doc, ctx, id)
    ELSE IF ctx.isConstant \/ ctx.isEnum THEN StoreConstant(doc, ctx, id)
    ELSE StoreMisc(doc, ctx, id)

(***************************************************************************)
(* The comments dox.parseComments can hand to addSource.                   *)
(***************************************************************************)
Flag(t) == [type |-> t, arg |-> <<>>]
Name(n) == [type |-> "name", arg |-> n]
MemberOf(p) == [type |-> "memberOf", arg |-> p]
Kind(k) == [type |-> "kind", arg |-> k]
Comment(d, tags) == [tags |-> tags, description |-> d, isPrivate |-> FALSE]

Pool ==
    { Comment("d1", <<Flag("api"), Flag("class"), Name(A)>>),
      Comment("d2", <<Name(A), Kind(KindClass)>>),
      Comment("d1", <<Flag("module"), Kind(KindFunction), Name(A)>>),
      Comment("d1", <<Flag("module"), Flag("class"), Name(B), MemberOf(A)>>),
      Comment("d1", <<Flag("constant"), Name(F), MemberOf(A), MemberOf(B)>>),
      Comment("d1", <<Flag("enum"), Flag("function"), Name(B), MemberOf(A),
                      MemberOf(AB)>>),
      Comment("d1", <<Flag("class"), Name(B), Flag("ignore"), MemberOf(A)>>),
      Comment("d1", <<Name(F), Kind(KindModule), MemberOf(A)>>),
      Comment("d1", <<Flag("function"), Name(F), MemberOf(ToStringName)>>),
      Comment("d1", <<Kind(KindEnum), MemberOf(UndefinedStr), Name(F)>>) }

\* The argument of new DocContext(options): stored unchecked, so it may be
\* absent (undefined or null) or an object.  The verbose field of an object
\* only selects a console.warn, so one object stands for both of its values.
NoOptions == [given |-> FALSE, verbose |-> FALSE]
Options(v) == [given |-> TRUE, verbose |-> v]
OptionsPool == {NoOptions, Options(TRUE)}

(***************************************************************************)
(* The state machine.                                                      *)
(***************************************************************************)
NoLookup == [kids |-> <<>>, name |-> <<>>, first |-> Undefined,
             last |-> Undefined, all |-> <<>>, done |-> FALSE]

Init ==
    /\ comments = <<>>
    /\ pc = "idle"
    /\ pos = 0
    /\ passes = 0
    /\ ents = <<>>
    /\ children = <<>>
    /\ parent = <<>>
    /\ classes = EmptyMap
    /\ modules = EmptyMap
    /\ functions = EmptyMap
    /\ constants = EmptyMap
    /\ misc = <<>>
    /\ subs = <<>>
    /\ calls = <<>>
    /\ microtasks = <<>>
    /\ published = <<>>
    /\ error = FALSE
    /\ options \in OptionsPool
    /\ lookup = NoLookup

\* DocContext.addSource: the parsed comments are appended (comments added
\* after the last pass of the bound are never read and are left out)
addSource ==
    /\ pc = "idle"
    /\ Len(comments) < MaxComments
    /\ passes < MaxPasses
    /\ \E c \in Pool : comments' = Append(comments, c)
    /\ UNCHANGED <<pc, pos, passes, ents, children, parent, docVars,
                   subs, calls, microtasks, published, error, options,
                   lookup>>

\* DocContext.processSource is entered; it runs to its end (or to a throw)
\* before any queued then-callback
processSourceBegin ==
    /\ pc = "idle"
    /\ passes < MaxPasses
    /\ Len(ents) + Len(comments) <= MaxEntities
    /\ pc' = "pass"
    /\ pos' = 1
    /\ passes' = passes + 1
    /\ UNCHANGED <<comments, ents, children, parent, docVars,
                   subs, calls, microtasks, published, error, options,
                   lookup>>

\* one iteration of the forEach in processSource
processComment ==
    /\ pc = "pass"
    /\ pos <= Len(comments)
    /\ LET id == Len(ents) + 1
           r == CommentContext(comments[pos], id,
                    [subs |-> subs, calls |-> calls, microtasks |-> microtasks,
                     published |-> published])
           doc == [classes |-> classes, modules |-> modules,
                   functions |-> functions, constants |-> constants,
                   misc |-> misc, st |-> r.st, options |-> options,
                   thrown |-> FALSE]
           out == IF r.thrown THEN doc ELSE Classify(doc, r.ent, id)
           thrown == r.thrown \/ out.thrown
       IN  /\ ents' = Append(ents, r.ent)
           /\ children' = Append(children, <<>>)
           /\ parent' = Append(parent, Undefined)
           /\ classes' = out.classes
           /\ modules' = out.modules
           /\ functions' = out.functions
           /\ constants' = out.constants
           /\ misc' = out.misc
           /\ subs' = out.st.subs
           /\ calls' = out.st.calls
           /\ microtasks' = out.st.microtasks
           /\ published' = out.st.published
           /\ error' = (error \/ thrown)
           /\ pc' = IF thrown THEN "idle" ELSE "pass"
           /\ pos' = IF thrown THEN 0 ELSE pos + 1
    /\ UNCHANGED <<comments, passes, options, lookup>>

processSourceEnd ==
    /\ pc = "pass"
    /\ pos > Len(comments)
    /\ pc' = "idle"
    /\ pos' = 0
    /\ UNCHANGED <<comments, passes, ents, children, parent, docVars,
                   subs, calls, microtasks, published, error, options,
                   lookup>>

\* variant: a then-callback may run as soon as its promise is resolved,
\* between two iterations of the running pass
RunMicrotaskAtOnce ==
    /\ microtasks # <<>>
    /\ LET c == Head(microtasks)
           cls == calls[c].target
           child == calls[c].owner
       IN  IF cls = ProtoMember
           THEN /\ calls' = [calls EXCEPT ![c].status = "rejected"]
                /\ UNCHANGED <<children, parent>>
           ELSE /\ children' = addChild(children, cls, child)
                /\ parent' = SetParent(parent, child, cls)
                /\ calls' = [calls EXCEPT ![c].status = "attached"]
    /\ microtasks' = Tail(microtasks)
    /\ UNCHANGED <<pc, comments, pos, passes, ents, docVars, subs, published,
                   error, options, lookup>>

\* the then-callback of processTags: cls.addChild(this).  It is a promise
\* microtask: it runs once the running code has returned, and a microtask
\* of the caller may call addSource or processSource between two of them.
RunMicrotask ==
    /\ pc = "idle"
    /\ microtasks # <<>>
    /\ LET c == Head(microtasks)
           cls == calls[c].target
           child == calls[c].owner
       IN  IF cls = ProtoMember
           THEN \* cls.addChild is not a function: the callback throws and
                \* the promise returned by then is rejected
                /\ calls' = [calls EXCEPT ![c].status = "rejected"]
                /\ UNCHANGED <<children, parent>>
           ELSE /\ children' = addChild(children, cls, child)
                /\ parent' = SetParent(parent, child, cls)
                /\ calls' = [calls EXCEPT ![c].status = "attached"]
    /\ microtasks' = Tail(microtasks)
    /\ UNCHANGED <<pc, comments, pos, passes, ents, docVars, subs, published,
                   error, options, lookup>>

Next ==
    \/ addSource
    \/ processSourceBegin
    \/ processComment
    \/ processSourceEnd
    \/ RunMicrotask

Spec == Init /\ [][Next]_vars

TypeOK ==
    /\ pc \in {"idle", "pass"}
    /\ options \in OptionsPool
    /\ Len(ents) <= MaxEntities
    /\ Len(children) = Len(ents)
    /\ Len(parent) = Len(ents)

(***************************************************************************)
(* Vocabulary of the properties.                                           *)
(***************************************************************************)
Ents == DOMAIN ents

HasDot(s) == \E i \in DOMAIN s : s[i] = "."

MemberOfTags(e) ==
    {i \in DOMAIN ents[e].tags : ents[e].tags[i].type = "memberOf"}

HasMemberOf(e, P) ==
    \E i \in MemberOfTags(e) : ents[e].tags[i].arg = P

HasIgnoreTag(e) ==
    \E i \in DOMAIN ents[e].tags : ents[e].tags[i].type = "ignore"

Count(x, seq) == Cardinality({i \in DOMAIN seq : seq[i] = x})

ParentsOf(c) == {p \in Ents : Count(c, children[p]) > 0}

Occurrences(c) ==
    Cardinality(UNION {{<<p, i>> : i \in {j \in DOMAIN children[p] :
                                               children[p][j] = c}} :
                       p \in Ents})

InClasses(e) == \E k \in DOMAIN classes : classes[k] = e
InModules(e) == \E k \in DOMAIN modules : modules[k] = e
InFunctions(e) == \E k \in DOMAIN functions : functions[k] = e
InConstants(e) == \E k \in DOMAIN constants : constants[k] = e
InMisc(e) == \E i \in DOMAIN misc : misc[i] = e

\* the entities stored in classes or modules under the name P
StoredUnder(P) ==
    {e \in Ents : \/ P \in DOMAIN classes /\ classes[P] = e
                  \/ P \in DOMAIN modules /\ modules[P] = e}

Queued(c) == \E i \in DOMAIN microtasks : calls[microtasks[i]].owner = c

Quiescent == pc = "idle" /\ microtasks = <<>>

(***************************************************************************)
(* C2.  Forward order: when an entity is stored in classes or modules      *)
(* under the dot-free name P before the comment C is ingested, and C has   *)
(* exactly one memberOf tag, naming P, then C is in no child sequence      *)
(* while its then-callback is queued and, once it has run, C occurs        *)
(* exactly once over all child sequences, in the child sequence of an      *)
(* entity stored under P before C.                                         *)
(***************************************************************************)
ForwardChild(c, P) ==
    /\ Cardinality(MemberOfTags(c)) = 1
    /\ HasMemberOf(c, P)
    /\ P # UndefinedStr
    /\ ~HasDot(P)
    /\ \E p \in StoredUnder(P) : p < c

ParentArgs ==
    UNION {{ents[e].tags[i].arg : i \in MemberOfTags(e)} : e \in Ents}

C2_ForwardExactlyOnce ==
    \A c \in Ents : \A P \in ParentArgs :
        ForwardChild(c, P) =>
            IF Queued(c) THEN Occurrences(c) = 0
            ELSE /\ Occurrences(c) = 1
                 /\ \E p \in StoredUnder(P) : p < c /\ Count(c, children[p]) = 1

C2_Witness ==
    \E c \in Ents : \E P \in ParentArgs :
        /\ ForwardChild(c, P)
        /\ ~Queued(c)
        /\ Occurrences(c) = 1
        /\ c < Len(ents)

(***************************************************************************)
(* C3.  An entity C is in the child sequence of P if and only if the       *)
(* parent back-reference of C is P.                                        *)
(***************************************************************************)
C3_ParentIffChild ==
    \A c \in Ents : \A p \in Ents :
        (Count(c, children[p]) > 0) <=> (parent[c] = p)

(***************************************************************************)
(* C4.  Every entity is a member of at most one entity's child sequence.   *)
(***************************************************************************)
C4_AtMostOneParent ==
    \A c \in Ents : Cardinality(ParentsOf(c)) <= 1

(***************************************************************************)
(* C7.  An entity whose tag list has an ignore tag is in none of the four  *)
(* maps and not in misc.                                                   *)
(***************************************************************************)
C7_IgnoredNeverStored ==
    \A e \in Ents :
        HasIgnoreTag(e) =>
            ~(InClasses(e) \/ InModules(e) \/ InFunctions(e)
              \/ InConstants(e) \/ InMisc(e))

C7_Witness ==
    \E e \in Ents :
        /\ HasIgnoreTag(e)
        /\ ents[e].isClass
        /\ e < Len(ents)
        /\ InClasses(Len(ents))

(***************************************************************************)
(* C5.  A call whose first segment names no class or module waits for the  *)
(* publication made when that first segment is stored at top level: no     *)
(* call is still subscribed once an entity with an empty parentName has    *)
(* been stored in classes or modules under the call's first segment.       *)
(***************************************************************************)
FirstSegment(className) == Head(Split(className))

TopLevelStored(P) == {e \in StoredUnder(P) : ~TruthyStr(ents[e].parentName)}

Subscribed(c) == \E i \in DOMAIN subs : subs[i].call = c

C5_WaitsForFirstSegment ==
    \A c \in DOMAIN calls :
        Subscribed(c) => TopLevelStored(FirstSegment(calls[c].className)) = {}

(***************************************************************************)
(* C6.  First definition wins: an entry of classes, modules, functions or  *)
(* constants never changes once set, the stored entity keeps its fields,   *)
(* and a step that ingests a comment whose name is already claimed in its  *)
(* category leaves the four maps and misc as they are and raises no error. *)
(***************************************************************************)
Kept(map, mapNext) ==
    \A k \in DOMAIN map : k \in DOMAIN mapNext /\ mapNext[k] = map[k]

Destination(ctx) ==
    IF ctx.isIgnored THEN "ignored"
    ELSE IF ctx.isClass THEN "classes"
    ELSE IF ctx.isModule THEN "modules"
    ELSE IF ctx.isFunction THEN "functions"
    ELSE IF ctx.isConstant \/ ctx.isEnum THEN "constants"
    ELSE "misc"

MapOf(d) ==
    CASE d = "classes" -> classes
      [] d = "modules" -> modules
      [] d = "functions" -> functions
      [] d = "constants" -> constants
      [] OTHER -> EmptyMap

\* the entity built in this step duplicates a name claimed before the step
Duplicate(e) ==
    /\ e \in DOMAIN ents
    /\ ents[e].name \in DOMAIN MapOf(Destination(ents[e]))
    /\ MapOf(Destination(ents[e]))[ents[e].name] # e

C6_FirstWinsStep ==
    /\ Kept(classes, classes') /\ Kept(modules, modules')
    /\ Kept(functions, functions') /\ Kept(constants, constants')
    /\ \A e \in Ents : e \in DOMAIN ents' /\ ents'[e] = ents[e]
    /\ \A e \in DOMAIN ents' \ Ents :
         (/\ ents'[e].name \in DOMAIN MapOf(Destination(ents'[e]))
          /\ pc' = "pass")
            => UNCHANGED <<docVars, error>>

C6_FirstDefinitionWins == [][C6_FirstWinsStep]_vars

C6_Witness ==
    \E e \in Ents :
        /\ Duplicate(e)
        /\ ents[e].isClass
        /\ ents[classes[ents[e].name]].description # ents[e].description
        /\ ents[classes[ents[e].name]].description = "d1"

(***************************************************************************)
(* Reference lookups, written from the wording of the interface and not    *)
(* from the reduce calls: the lowest and the highest index of a child with *)
(* the name.                                                               *)
(***************************************************************************)
Named(kids, name) == {i \in DOMAIN kids : NameOf(kids[i]) = name}

Lowest(S) == CHOOSE i \in S : \A j \in S : i <= j
Highest(S) == CHOOSE i \in S : \A j \in S : i >= j

RECURSIVE RefWalk(_, _)
RefWalk(ctx, parts) ==
    IF parts = <<>> THEN ctx
    ELSE IF Named(KidsOf(ctx), Head(parts)) = {} THEN Undefined
    ELSE RefWalk(KidsOf(ctx)[Lowest(Named(KidsOf(ctx), Head(parts)))],
                 Tail(parts))

NewCalls == DOMAIN calls' \ DOMAIN calls

\* the calls a publication of this step delivers to
Woken == {c \in DOMAIN calls : calls[c].status = "subscribed"
                                /\ calls'[c].status # "subscribed"}

(***************************************************************************)
(* C8.  A call of getClass with a two-segment name A.B, made while A is a  *)
(* known class or module with at least two children named B, resolves in   *)
(* that call to the child named B at the lowest index of A's children.     *)
(***************************************************************************)
C8_FirstNamedChildStep ==
    \A c \in NewCalls :
        LET segs == Split(calls'[c].className)
            a == KnownClass(segs[1])
        IN  (/\ Len(segs) = 2
             /\ a \in Ents
             /\ Cardinality(Named(children[a], segs[2])) >= 2)
                => /\ calls'[c].status = "resolved"
                   /\ calls'[c].target
                        = children[a][Lowest(Named(children[a], segs[2]))]

C8_ResolvesToEarliestChild == [][C8_FirstNamedChildStep]_vars

\* right after the comment of the last entity was ingested: its reference
\* A.B is resolved to the first of two children of A named B
C8_Witness ==
    /\ pc = "pass"
    /\ \E c \in DOMAIN calls : \E a \in Ents :
         /\ calls[c].owner = Len(ents)
         /\ calls[c].status = "resolved"
         /\ Len(Split(calls[c].className)) = 2
         /\ a \in StoredUnder(FirstSegment(calls[c].className))
         /\ \E i \in DOMAIN children[a] : \E j \in DOMAIN children[a] :
              /\ i < j
              /\ children[a][i] = calls[c].target
              /\ children[a][j] # calls[c].target
              /\ NameOf(children[a][j]) = NameOf(children[a][i])

(***************************************************************************)
(* C9.  A walk that meets a segment naming no child of the current entity  *)
(* leaves the call stuck: the call is not resolved in that step, a stuck   *)
(* call stays stuck in every later step and is never queued for its        *)
(* attach, and no step raises an error but one that ingests a memberOf tag *)
(* without a parent or sends an entity to misc without an options object.  *)
(***************************************************************************)
C9_MissingSegmentStep ==
    /\ \A c \in DOMAIN calls :
         calls[c].status = "stuck"
            => /\ calls'[c] = calls[c]
               /\ \A i \in DOMAIN microtasks' : microtasks'[i] # c
    /\ \A c \in NewCalls :
         LET segs == Split(calls'[c].className)
             a == KnownClass(segs[1])
         IN  (a \in Ents /\ RefWalk(a, Tail(segs)) = Undefined)
                => /\ calls'[c].status = "stuck"
                   /\ \A i \in DOMAIN microtasks' : microtasks'[i] # c
    /\ \A c \in Woken :
         RefWalk(Len(ents) + 1, Tail(Split(calls[c].className))) = Undefined
            => /\ calls'[c].status = "stuck"
               /\ \A i \in DOMAIN microtasks' : microtasks'[i] # c
    /\ error' # error
         => \/ \E i \in DOMAIN ents'[Len(ents')].tags :
                  /\ ents'[Len(ents')].tags[i].type = "memberOf"
                  /\ ents'[Len(ents')].tags[i].arg = UndefinedStr
            \/ /\ ~options.given
               /\ Destination(ents'[Len(ents')]) = "misc"

C9_MissingSegmentNeverResolves == [][C9_MissingSegmentStep]_vars

\* a call stuck on A.B although by now A has a child named B
C9_Witness ==
    \E c \in DOMAIN calls : \E a \in Ents :
        /\ calls[c].status = "stuck"
        /\ Len(Split(calls[c].className)) = 2
        /\ a \in StoredUnder(FirstSegment(calls[c].className))
        /\ Named(children[a], Split(calls[c].className)[2]) # {}
        /\ ParentsOf(calls[c].owner) = {a}
        /\ Quiescent
        /\ ~error

(***************************************************************************)
(* C1.  Reverse order.                                                     *)
(***************************************************************************)
\* C carries memberOf P and nothing was stored under P when C was ingested
WaitingChild(c, P) ==
    /\ HasMemberOf(c, P)
    /\ P # UndefinedStr
    /\ ~HasDot(P)
    /\ \A q \in StoredUnder(P) : q >= c

\* the comments after C that declare P as a class or module and are not
\* ignored
Declaring(c, P) ==
    {p \in Ents : /\ p > c
                  /\ ents[p].name = P
                  /\ ents[p].isClass \/ ents[p].isModule
                  /\ ~ents[p].isIgnored}

\* the entities stored after C under P with an empty parentName
Publishing(c, P) == {p \in TopLevelStored(P) : p > c}

(***************************************************************************)
(* C1 as claimed: when all queued callbacks have run, a waiting C is in    *)
(* the child sequence of the first later comment that is not ignored and   *)
(* declares P as a class or module.                                        *)
(***************************************************************************)
C1_AnyDeclarationAttaches ==
    Quiescent =>
        \A c \in Ents : \A P \in ParentArgs :
            (WaitingChild(c, P) /\ Declaring(c, P) # {})
                => Count(c, children[Lowest(Declaring(c, P))]) > 0

(***************************************************************************)
(* C1 as amended: when C waits for the dot-free name P and afterwards an   *)
(* entity is stored in classes or modules under P with an empty            *)
(* parentName, C's then-callback is queued or C is already a child of the  *)
(* first such entity, and C is a child of it when all queued callbacks     *)
(* have run.                                                               *)
(***************************************************************************)
ReverseDue ==
    {c \in Ents : \E P \in ParentArgs :
        /\ WaitingChild(c, P)
        /\ Publishing(c, P) # {}
        /\ Count(c, children[Lowest(Publishing(c, P))]) = 0}

C1_ReverseAttached ==
    /\ \A c \in ReverseDue :
          \E i \in DOMAIN microtasks :
              /\ calls[microtasks[i]].owner = c
              /\ \E P \in ParentArgs :
                   /\ WaitingChild(c, P)
                   /\ Publishing(c, P) # {}
                   /\ calls[microtasks[i]].target = Lowest(Publishing(c, P))
    /\ Quiescent => ReverseDue = {}

\* C was ingested before the class or module P and is now a child of P
C1_Witness ==
    \E c \in Ents : \E P \in ParentArgs :
        /\ WaitingChild(c, P)
        /\ Publishing(c, P) # {}
        /\ Count(c, children[Lowest(Publishing(c, P))]) = 1
        /\ Quiescent

(***************************************************************************)
(* C10.  The child lookups as pure functions: a specification that draws   *)
(* a child sequence and a name and applies the three lookups.              *)
(***************************************************************************)
LookupNames == {A, B, F}

Entity(name) ==
    [NewEntity(Comment("d1", <<Name(name)>>)) EXCEPT !.name = name]

RECURSIVE SeqsUpTo(_, _)
SeqsUpTo(S, n) ==
    IF n = 0 THEN {<<>>}
    ELSE LET shorter == SeqsUpTo(S, n - 1)
         IN  shorter \cup {Append(q, x) : q \in shorter, x \in S}

LookupInit ==
    /\ comments = <<>>
    /\ pc = "idle"
    /\ pos = 0
    /\ passes = 0
    /\ ents \in [1..MaxKids -> {Entity(n) : n \in {A, B}}]
    /\ \E kids \in SeqsUpTo(1..MaxKids, MaxKids) :
         children = [e \in 1..MaxKids |-> IF e = 1 THEN kids ELSE <<>>]
    /\ parent = [e \in 1..MaxKids |-> Undefined]
    /\ classes = EmptyMap
    /\ modules = EmptyMap
    /\ functions = EmptyMap
    /\ constants = EmptyMap
    /\ misc = <<>>
    /\ subs = <<>>
    /\ calls = <<>>
    /\ microtasks = <<>>
    /\ published = <<>>
    /\ error = FALSE
    /\ options \in OptionsPool
    /\ lookup = NoLookup

childLookup ==
    /\ ~lookup.done
    /\ \E name \in LookupNames :
         lookup' = [kids |-> children[1], name |-> name,
                    first |-> getFirstChild(children[1], name),
                    last |-> getLastChild(children[1], name),
                    all |-> getChildren(children[1], name),
                    done |-> TRUE]
    /\ UNCHANGED <<comments, pc, pos, passes, ents, children, parent,
                   docVars, subs, calls, microtasks, published, error,
                   options>>

LookupNext == childLookup

LookupSpec == LookupInit /\ [][LookupNext]_vars

(***************************************************************************)
(* C10.  getFirstChild returns the child with the name at the lowest       *)
(* index, getLastChild the one at the highest index, getChildren the       *)
(* children with the name in sequence order, and the first two return      *)
(* null or undefined when no child has the name.                           *)
(***************************************************************************)
IsNone(x) == x \in {Null, Undefined}

C10_LookupsMatchReference ==
    lookup.done =>
        LET kids == lookup.kids
            hits == Named(kids, lookup.name)
        IN  /\ lookup.all = SelectSeq(kids, LAMBDA k : NameOf(k) = lookup.name)
            /\ IF hits = {}
               THEN IsNone(lookup.first) /\ IsNone(lookup.last)
               ELSE /\ lookup.first = kids[Lowest(hits)]
                    /\ lookup.last = kids[Highest(hits)]

\* a lookup with several matches at distinct indices
C10_Witness ==
    /\ lookup.done
    /\ Cardinality(Named(lookup.kids, lookup.name)) >= 2
    /\ lookup.first # lookup.last
    /\ Len(lookup.all) = 2
    /\ Len(lookup.kids) = 3

\* a lookup of a name no child has, and of any name in an empty sequence
C10_WitnessNone ==
    /\ lookup.done
    /\ lookup.kids # <<>>
    /\ Named(lookup.kids, lookup.name) = {}
    /\ lookup.first = Undefined

(***************************************************************************)
(* C11: no single comment aborts ingestion.  Whenever a pass stands before *)
(* a comment of the stream, its step ingests that comment, stays in the    *)
(* pass, moves on to the next comment and lets no error out.               *)
(***************************************************************************)
C11_NoCommentAbortsIngestion ==
    [][(pc = "pass" /\ pos <= Len(comments))
         => /\ pc' = "pass"
            /\ pos' = pos + 1
            /\ Len(ents') = Len(ents) + 1
            /\ error' = FALSE]_vars

(***************************************************************************)
(* C12: publication rule.  A step appends to the log of publications       *)
(* exactly one event for each entity it newly stores in classes or         *)
(* modules and nothing else; the topic of the event is the entity's name   *)
(* when its parentName is empty and parentName.name otherwise, so an       *)
(* entity with a parent is not published under its bare name and a         *)
(* dropped duplicate publishes nothing.                                    *)
(***************************************************************************)
TopicOf(ctx) ==
    IF ctx.parentName = <<>> THEN ctx.name
    ELSE ctx.parentName \o <<".">> \o ctx.name

NewlyStored ==
    (Range(classes') \cup Range(modules'))
        \ (Range(classes) \cup Range(modules))

NewlyPublished ==
    {published'[i] : i \in (Len(published) + 1)..Len(published')}

C12_PublicationRule ==
    [][/\ Len(published') >= Len(published)
       /\ SubSeq(published', 1, Len(published)) = published
       /\ Len(published') - Len(published) = Cardinality(NewlyStored)
       /\ NewlyPublished =
              {[topic |-> TopicOf(ents'[e]), ctx |-> e] : e \in NewlyStored}
       /\ \A x \in NewlyPublished :
              ents'[x.ctx].parentName # <<>>
                  => x.topic # ents'[x.ctx].name]_vars

\* a nested class or module was published under its dotted name, and a
\* later class or module comment was dropped as a duplicate and published
\* nothing
C12_Witness ==
    /\ \E i \in DOMAIN published :
           /\ ents[published[i].ctx].parentName # <<>>
           /\ HasDot(published[i].topic)
    /\ \E e \in Ents :
           /\ ents[e].isClass \/ ents[e].isModule
           /\ ~ents[e].isIgnored
           /\ ~(InClasses(e) \/ InModules(e))
           /\ \A i \in DOMAIN published : published[i].ctx # e
    /\ pc = "idle"

(***************************************************************************)
(* C13: only classes and modules are resolution targets.  As long as no    *)
(* entity is stored in classes or modules under the dot-free name P, every *)
(* getClass call for P is pending on its subscription (neither resolved    *)
(* nor failed), and an entity whose only memberOf tag names P is in no     *)
(* child sequence.                                                         *)
(***************************************************************************)
C13_OnlyStoredNamesResolve ==
    \A c \in DOMAIN calls :
        (~HasDot(calls[c].className) /\ StoredUnder(calls[c].className) = {})
            => /\ calls[c].status = "subscribed"
               /\ Subscribed(c)
               /\ Cardinality(MemberOfTags(calls[c].owner)) = 1
                      => Occurrences(calls[c].owner) = 0

\* the same statement for the names that are not keys of Object.prototype
C13_ExceptInheritedKeys ==
    \A c \in DOMAIN calls :
        (/\ ~HasDot(calls[c].className)
         /\ StoredUnder(calls[c].className) = {}
         /\ calls[c].className \notin ProtoKeys)
            => /\ calls[c].status = "subscribed"
               /\ Subscribed(c)
               /\ Cardinality(MemberOfTags(calls[c].owner)) = 1
                      => Occurrences(calls[c].owner) = 0

(***************************************************************************)
(* C14: children keep discovery order.  Every step leaves each child       *)
(* sequence a prefix of what it becomes (append-only: no entry is removed  *)
(* or reordered), every child sequence lists its entities in the order in  *)
(* which their comments were ingested (entities are numbered by            *)
(* ingestion), whether they were deferred through the subscription or      *)
(* resolved at once, and every child carries a memberOf tag whose last     *)
(* segment is the name of the parent.                                      *)
(***************************************************************************)
LastSegment(className) == Split(className)[Len(Split(className))]

InDiscoveryOrder(kids) ==
    \A i \in DOMAIN kids : \A j \in DOMAIN kids :
        i < j => kids[i] <= kids[j]

C14_ChildrenKeepDiscoveryOrder ==
    [][\A p \in Ents :
          /\ Len(children'[p]) >= Len(children[p])
          /\ SubSeq(children'[p], 1, Len(children[p])) = children[p]
          /\ InDiscoveryOrder(children'[p])
          /\ \A i \in DOMAIN children'[p] :
                 \E t \in MemberOfTags(children'[p][i]) :
                     LastSegment(ents[children'[p][i]].tags[t].arg)
                         = ents[p].name]_vars

\* a top-level class or module has a child that was ingested before it
\* (deferred) followed by a child that was ingested after it (at once)
C14_Witness ==
    \E p \in Ents :
        /\ InClasses(p) \/ InModules(p)
        /\ ents[p].parentName = <<>>
        /\ \E i \in DOMAIN children[p] : \E j \in DOMAIN children[p] :
               /\ i < j
               /\ children[p][i] < p
               /\ p < children[p][j]

(***************************************************************************)
(* C15: one attach per reference.  Every getClass call belongs to one      *)
(* memberOf tag occurrence of its owner; a call is subscribed at most once *)
(* and only while it is pending, its then-callback is queued at most once  *)
(* and only while it is resolved and not yet run, and the entries of an    *)
(* entity over all child sequences are as many as its calls whose          *)
(* callback has run: no call leads to a second addChild, whatever is       *)
(* published afterwards.                                                   *)
(***************************************************************************)
CallsOf(e) == {c \in DOMAIN calls : calls[c].owner = e}

AttachedCallsOf(e) == {c \in CallsOf(e) : calls[c].status = "attached"}

C15_OneAttachPerReference ==
    /\ \A c \in DOMAIN calls :
           /\ Cardinality({i \in DOMAIN subs : subs[i].call = c})
                  = IF calls[c].status = "subscribed" THEN 1 ELSE 0
           /\ Count(c, microtasks)
                  = IF calls[c].status = "resolved" THEN 1 ELSE 0
    /\ \A e \in Ents :
           /\ Cardinality(CallsOf(e)) <= Cardinality(MemberOfTags(e))
           /\ Occurrences(e) = Cardinality(AttachedCallsOf(e))

\* The streams in which one topic is published twice behind a waiting
\* reference need three comments: a child, a class and a module of one
\* name.  They are explored with the same actions over a smaller pool.
MaxStream == 3

StreamPool ==
    { Comment("d1", <<Name(F), Kind(KindModule), MemberOf(A)>>),
      Comment("d1", <<Flag("class"), Name(A)>>),
      Comment("d1", <<Flag("module"), Kind(KindFunction), Name(A)>>) }

addSourceStream ==
    /\ pc = "idle"
    /\ Len(comments) < MaxStream
    /\ passes < MaxPasses
    /\ \E c \in StreamPool : comments' = Append(comments, c)
    /\ UNCHANGED <<pc, pos, passes, ents, children, parent, docVars,
                   subs, calls, microtasks, published, error, options,
                   lookup>>

StreamNext ==
    \/ addSourceStream
    \/ processSourceBegin
    \/ processComment
    \/ processSourceEnd
    \/ RunMicrotask

StreamSpec == Init /\ [][StreamNext]_vars

\* a reference that waited for its parent was woken by the first publication
\* of resolve:P and attached once, and resolve:P was published a second time
\* (a class and a module named P are both stored)
C15_Witness ==
    \E c \in DOMAIN calls :
        /\ calls[c].status = "attached"
        /\ calls[c].owner < calls[c].target
        /\ Occurrences(calls[c].owner) = 1
        /\ \E i \in DOMAIN published : \E j \in DOMAIN published :
               /\ i < j
               /\ published[i].ctx = calls[c].target
               /\ published[i].topic = calls[c].className
               /\ published[j].topic = calls[c].className
        /\ Quiescent

(***************************************************************************)
(* C16: attachment is always deferred.  While a processSource pass is      *)
(* running no child sequence changes; the step that ingests a comment      *)
(* gives the new entity an empty child sequence, and every getClass call   *)
(* the step makes is, after the step, pending, stuck, failed or resolved   *)
(* with its then-callback still queued, never attached, also when the      *)
(* parent was known before the step.                                       *)
(***************************************************************************)
C16_AttachmentDeferred ==
    [][/\ pc = "pass" => \A p \in Ents : children'[p] = children[p]
       /\ \A p \in DOMAIN children' \ Ents : children'[p] = <<>>
       /\ \A c \in NewCalls :
              /\ calls'[c].status # "attached"
              /\ calls'[c].status = "resolved" =>
                     /\ \E i \in DOMAIN microtasks' : microtasks'[i] = c
                     /\ calls'[c].target \in DOMAIN children' =>
                            Count(calls'[c].owner,
                                  children'[calls'[c].target]) = 0
       /\ \A c \in DOMAIN calls :
              (calls[c].status # "attached" /\ calls'[c].status = "attached")
                  => pc # "pass" /\ calls[c].status = "resolved"]_vars

\* in the middle of a pass, a reference whose parent was stored before the
\* comment was ingested is resolved, its callback is queued, and the child
\* is not yet in the parent's child sequence
C16_Witness ==
    /\ pc = "pass"
    /\ pos <= Len(comments)
    /\ \E c \in DOMAIN calls :
           /\ calls[c].status = "resolved"
           /\ calls[c].target \in Ents
           /\ calls[c].target < calls[c].owner
           /\ \E i \in DOMAIN microtasks : microtasks[i] = c
           /\ Count(calls[c].owner, children[calls[c].target]) = 0

(***************************************************************************)
(* C17: classification is by fixed priority and exclusive.  The step that  *)
(* ingests a comment changes at most the one collection chosen for the     *)
(* new entity as classes if isClass, else modules if isModule, else        *)
(* functions if isFunction, else constants if isConstant or isEnum, else   *)
(* misc (none when it is ignored), and after every step every entity is in *)
(* at most one of the five collections, which is the one chosen for it.    *)
(***************************************************************************)
Holding(e, cl, mo, fu, co, mi) ==
    {d \in {"classes", "modules", "functions", "constants", "misc"} :
        \/ d = "classes" /\ e \in Range(cl)
        \/ d = "modules" /\ e \in Range(mo)
        \/ d = "functions" /\ e \in Range(fu)
        \/ d = "constants" /\ e \in Range(co)
        \/ d = "misc" /\ e \in Range(mi)}

C17_ExclusivePriority ==
    [][/\ \A e \in DOMAIN ents' \ Ents :
              LET d == Destination(ents'[e])
              IN  /\ d # "classes" => classes' = classes
                  /\ d # "modules" => modules' = modules
                  /\ d # "functions" => functions' = functions
                  /\ d # "constants" => constants' = constants
                  /\ d # "misc" => misc' = misc
                  /\ (d = "misc" /\ pc' = "pass") => misc' = Append(misc, e)
       /\ \A e \in DOMAIN ents' :
              LET held == Holding(e, classes', modules', functions',
                                  constants', misc')
              IN  /\ Cardinality(held) <= 1
                  /\ held \subseteq {Destination(ents'[e])}
                  /\ Count(e, misc') <= 1]_vars

\* an entity with the class and the module flag is stored as a class only,
\* and one with the function and the enum flag as a function only
C17_Witness ==
    /\ \E e \in Ents :
           /\ ents[e].isClass /\ ents[e].isModule
           /\ Holding(e, classes, modules, functions, constants, misc)
                  = {"classes"}
    /\ \E e \in Ents :
           /\ ents[e].isFunction /\ ents[e].isEnum
           /\ Holding(e, classes, modules, functions, constants, misc)
                  = {"functions"}

(***************************************************************************)
(* C18: an entity the index drops is still attached.  Every memberOf tag   *)
(* of an entity makes its getClass call, also when the entity is ignored   *)
(* or a duplicate and so in none of the four maps and not in misc; when    *)
(* the dot-free parent name P of such a call was stored before the entity  *)
(* was ingested, or is stored at top level after it, the call is resolved, *)
(* and once its callback has run the entity is in the child sequence of    *)
(* an entity stored under P.                                               *)
(***************************************************************************)
DroppedByIndex(e) ==
    /\ Holding(e, classes, modules, functions, constants, misc) = {}
    /\ ents[e].isIgnored \/ Duplicate(e)

ParentResolves(e, P) ==
    /\ ~HasDot(P)
    /\ \/ \E p \in StoredUnder(P) : p < e
       \/ \E p \in TopLevelStored(P) : p > e

C18_DroppedStillAttached ==
    \A e \in Ents :
        (DroppedByIndex(e) /\ ~HasMemberOf(e, UndefinedStr)) =>
            /\ Cardinality(CallsOf(e)) = Cardinality(MemberOfTags(e))
            /\ \A c \in CallsOf(e) :
                   ParentResolves(e, calls[c].className) =>
                       /\ calls[c].status \in {"resolved", "attached"}
                       /\ calls[c].target \in StoredUnder(calls[c].className)
                       /\ calls[c].status = "resolved" => Queued(e)
                       /\ calls[c].status = "attached" =>
                              Count(e, children[calls[c].target]) > 0
                       /\ Quiescent => calls[c].status = "attached"

\* an ignored entity, kept out of the maps and misc, was ingested before
\* its parent and is now in the parent's child sequence
C18_Witness ==
    \E e \in Ents : \E c \in CallsOf(e) :
        /\ HasIgnoreTag(e)
        /\ DroppedByIndex(e)
        /\ calls[c].status = "attached"
        /\ e < calls[c].target
        /\ Count(e, children[calls[c].target]) = 1
        /\ InClasses(calls[c].target) \/ InModules(calls[c].target)

(***************************************************************************)
(* C19: no dotted reference resolves in a pass over an index without       *)
(* children.  After every step taken while no entity has a child, every    *)
(* getClass call with a dotted name is neither resolved nor attached; a    *)
(* call made in the step is stuck when its first segment was a known class *)
(* or module (the walk finds no child), and is otherwise subscribed to the *)
(* topic of its whole dotted name, from which a publication leaves it      *)
(* stuck as well (the walk starts at the published entity).                *)
(***************************************************************************)
NoChildrenYet == \A p \in Ents : children[p] = <<>>

C19_DottedNeverResolves ==
    [][NoChildrenYet =>
          /\ \A c \in DOMAIN calls' :
                 HasDot(calls'[c].className) =>
                     calls'[c].status \notin {"resolved", "attached"}
          /\ \A c \in NewCalls :
                 HasDot(calls'[c].className) =>
                     IF KnownClass(FirstSegment(calls'[c].className)) \in Ents
                     THEN calls'[c].status = "stuck"
                     ELSE calls'[c].status \in {"subscribed", "stuck"}
          /\ \A i \in DOMAIN subs' :
                 subs'[i].topic = calls'[subs'[i].call].className
          /\ \A c \in Woken :
                 HasDot(calls[c].className) => calls'[c].status = "stuck"]_vars

\* in the first pass, with no child anywhere, a dotted reference that was
\* subscribed has been called by the publication of its whole dotted name
\* and is stuck
C19_Witness ==
    /\ passes = 1
    /\ pc = "pass"
    /\ NoChildrenYet
    /\ \E c \in DOMAIN calls :
           /\ HasDot(calls[c].className)
           /\ calls[c].status = "stuck"
           /\ \E i \in DOMAIN published :
                  /\ published[i].topic = calls[c].className
                  /\ published[i].ctx > calls[c].owner

====
